---- MODULE Spec2Model ----
(***************************************************************************)
(* A model of fuse-rm: the FUSE adapter RMXFS (src/src/rmxfs.rs), its      *)
(* entry model DirEntry (src/src/direntry.rs) and the sidecar codec        *)
(* JsonMetadata (src/src/jsonmetadata.rs), over a model of the backing     *)
(* store directory.                                                        *)
(*                                                                         *)
(* Conventions of the model                                                *)
(*  - A file name is a pair <<stem, ext>>; ext = "" is a name without a    *)
(*    dot.  PathBuf::set_extension replaces the part after the last dot.   *)
(*  - The store is the directory R (disk.root) and R/.pending              *)
(*    (disk.pending); a file is [ino, body].  Only the inode of a sidecar  *)
(*    is ever read by the program; payload and marker files carry ino 0.   *)
(*  - The backing file system gives every new sidecar an inode it has not  *)
(*    used before (next_ino), starting after the two synthetic inodes.     *)
(*  - uuid::Uuid::new_v4 is a fresh prefix (next_uuid).                    *)
(*  - fs::read_dir returns the sidecars in no particular order: a find     *)
(*    over the scan may return any matching entry, except that the         *)
(*    synthetic trash entry is always first.                               *)
(*  - An operation fails only where the contents of the store make it     *)
(*    fail: a missing file, or (in SpecFaults) a sidecar that does not     *)
(*    parse.  A write that fails or an unreadable directory is not         *)
(*    modelled.                                                            *)
(***************************************************************************)
EXTENDS Integers, Sequences, FiniteSets, TLC

VARIABLES
    disk,          \* the backing store: [root, pending_exists, pending]
    dir_map,       \* RMXFS.dir_map: inode -> [counter, entries]
    file_map,      \* RMXFS.file_map: inode -> [counter, file]
    pending_map,   \* RMXFS.pending_map: inode -> [entry, file]
    next_uuid,     \* index of the next prefix Uuid::new_v4 returns
    next_ino,      \* the inode the store gives the next new sidecar
    n_rename,      \* history: the renames that changed the store
    opens,         \* history: per inode, opens replied ok minus releases replied ok
    opendirs       \* history: the same for opendir / releasedir

vars == <<disk, dir_map, file_map, pending_map, next_uuid, next_ino, n_rename,
          opens, opendirs>>

---------------------------------------------------------------------------
(* Bounds of the model *)

\* number of prefixes create / mkdir may allocate in one run
MaxPrefix == 2
\* largest reference count of an open file or directory handle
MaxRef == 2
\* largest payload length, in bytes
MaxLen == 1
\* number of inodes open at once in file_map, and in dir_map
MaxHandles == 1
\* number of renames that change the store in one run
MaxRename == 1
\* number of ingests staged at once in pending_map
MaxPending == 1

---------------------------------------------------------------------------
(* Program constants *)

ROOT_INO == 1
TRASH_INO == 2

ROOT_PREFIX == ""
TRASH_PREFIX == "trash"

\* direntry.rs ENTRYMAP, in its order
ENTRYMAP == << <<"EPUB", "epub">>, <<"PDF", "pdf">>, <<"RMLINES", "rm">> >>

---------------------------------------------------------------------------
(* Inputs *)

Uuid(i) == "u" \o ToString(i)
Uuids == {Uuid(i) : i \in 1..MaxPrefix}

\* every inode a callback may name: the synthetic ones, every sidecar inode
\* the run can allocate
MaxIno == TRASH_INO + MaxPrefix + MaxRename
Inodes == 1..MaxIno

\* the names create, mkdir and rename give an entry, and the names a callback
\* may look for
Names == {<<"a", "">>, <<"a", "pdf">>}
TRASH_NAME == <<"trash", "">>
ROOT_NAME == <<"", "">>
CallNames == Names \cup {<<"a", "epub">>, TRASH_NAME}
\* the name a rename gives
NewNames == {<<"a", "pdf">>}
OpenFlags == {"O_WRONLY", "O_RDWR"}

\* first bytes of a write: the magic of a pdf, of an epub, and bytes infer
\* does not recognise as a supported type
Magic == {"%PDF", "PKepub", "text"}
ZeroByte == "00"
Datas == {<<m>> : m \in Magic}
Offsets == 0..(MaxLen - 1)

EmptyFn == [k \in {} |-> 0]
Restrict(f, S) == [k \in S |-> f[k]]
Min(a, b) == IF a < b THEN a ELSE b

---------------------------------------------------------------------------
(* The backing store: std::fs on paths [dir, stem, ext] *)

RootPath(stem, ext) == [dir |-> "root", stem |-> stem, ext |-> ext]
PendingPath(stem, ext) == [dir |-> "pending", stem |-> stem, ext |-> ext]
set_extension(path, ext) == [path EXCEPT !.ext = ext]

DirOf(d, path) == IF path.dir = "root" THEN d.root ELSE d.pending
DirThere(d, path) == path.dir = "root" \/ d.pending_exists
PutDir(d, path, files) ==
    IF path.dir = "root" THEN [d EXCEPT !.root = files]
    ELSE [d EXCEPT !.pending = files]
Key(path) == <<path.stem, path.ext>>

exists(d, path) == DirThere(d, path) /\ Key(path) \in DOMAIN DirOf(d, path)

\* fs::remove_file: an error when the file is not there
remove_file(d, path) ==
    IF exists(d, path)
    THEN [ok |-> TRUE,
          disk |-> PutDir(d, path,
                     Restrict(DirOf(d, path), DOMAIN DirOf(d, path) \ {Key(path)}))]
    ELSE [ok |-> FALSE, disk |-> d]

\* a faulty fs::rename, for testing the properties against: the file at `to`
\* is a copy, a new file that does not have the inode of `from`
rename_as_copy(d, from, to) ==
    IF exists(d, from) /\ DirThere(d, to)
    THEN LET f == [DirOf(d, from)[Key(from)] EXCEPT !.ino = 0]
             d1 == remove_file(d, from).disk
         IN [ok |-> TRUE,
             disk |-> PutDir(d1, to, (Key(to) :> f) @@ DirOf(d1, to))]
    ELSE [ok |-> FALSE, disk |-> d]

\* fs::rename: the file keeps its inode and body, a file at `to` is replaced
fs_rename(d, from, to) ==
    IF exists(d, from) /\ DirThere(d, to)
    THEN LET f == DirOf(d, from)[Key(from)]
             d1 == remove_file(d, from).disk
         IN [ok |-> TRUE,
             disk |-> PutDir(d1, to, (Key(to) :> f) @@ DirOf(d1, to))]
    ELSE [ok |-> FALSE, disk |-> d]

\* fs::write: an existing file is truncated and keeps its inode, a new file
\* gets the inode `ino`
fs_write(d, path, body, ino) ==
    IF DirThere(d, path)
    THEN LET old == DirOf(d, path)
             f == [ino |-> IF Key(path) \in DOMAIN old THEN old[Key(path)].ino ELSE ino,
                   body |-> body]
         IN [ok |-> TRUE, disk |-> PutDir(d, path, (Key(path) :> f) @@ old)]
    ELSE [ok |-> FALSE, disk |-> d]

create_dir_pending(d) == [d EXCEPT !.pending_exists = TRUE]

\* what File::seek(Start(offset)) and write_all(data) leave in a file
WriteAt(bytes, offset, data) ==
    LET n == IF Len(bytes) > offset + Len(data) THEN Len(bytes) ELSE offset + Len(data)
    IN [i \in 1..n |->
          IF i > offset /\ i <= offset + Len(data) THEN data[i - offset]
          ELSE IF i <= Len(bytes) THEN bytes[i]
          ELSE ZeroByte]

---------------------------------------------------------------------------
(* Sidecar codec: jsonmetadata.rs *)

\* the tail of a new document's sidecar
FileDefaults ==
    {<<"deleted", "false">>, <<"lastModified", "now">>,
     <<"metadatamodified", "false">>, <<"modified", "false">>,
     <<"pinned", "false">>, <<"synced", "false">>, <<"version", "0">>}

JsonMetadataNew(visible_name, parent, doctype, extra) ==
    [parent |-> parent, visible_name |-> visible_name, type |-> doctype,
     extra |-> extra]

new_file(visible_name, parent) ==
    JsonMetadataNew(visible_name, parent, "DocumentType", FileDefaults)

new_dir(visible_name, parent) ==
    JsonMetadataNew(visible_name, parent, "CollectionType", {})

\* serde: the JSON object on disk has the camelCase keys and the flattened tail
to_vec(jm) ==
    [parent |-> jm.parent, visibleName |-> jm.visible_name, type |-> jm.type,
     tail |-> jm.extra]

from_str(body) ==
    [parent |-> body.parent, visible_name |-> body.visibleName,
     type |-> body.type, extra |-> body.tail]

\* serde_json::from_str fails on a body whose type is not one of the two tokens
DocTypes == {"CollectionType", "DocumentType"}
parses(body) == body.type \in DocTypes

from_file(d, path) == from_str(DirOf(d, path)[Key(path)].body)

\* writes the sidecar and returns the inode of the file written
save_file(d, jm, path, ino) ==
    LET w == fs_write(d, path, to_vec(jm), ino)
    IN IF w.ok
       THEN [ok |-> TRUE, disk |-> w.disk, ino |-> DirOf(w.disk, path)[Key(path)].ino]
       ELSE [ok |-> FALSE, disk |-> d, ino |-> 0]

---------------------------------------------------------------------------
(* Directory entry model: direntry.rs *)

\* the first element of seq whose index is in I (the indices a predicate holds at)
FirstOf(seq, I, default) ==
    IF I = {} THEN default
    ELSE seq[CHOOSE i \in I : \A j \in I : i <= j]

entry_type_ext(e) == FirstOf(ENTRYMAP,
        {i \in DOMAIN ENTRYMAP :
            LET x == ENTRYMAP[i] IN x[1] = e}, <<"NONE", "">>)[2]

ext_entry_type(ext) == FirstOf(ENTRYMAP,
        {i \in DOMAIN ENTRYMAP :
            LET x == ENTRYMAP[i] IN x[2] = ext}, <<"NONE", "">>)[1]

\* the first extension of ENTRYMAP for which a payload exists beside the sidecar
determine_entry_type(d, path) ==
    LET hit == FirstOf(ENTRYMAP,
            {i \in DOMAIN ENTRYMAP :
                LET x == ENTRYMAP[i] IN exists(d, set_extension(path, x[2]))},
                       <<"NONE", "">>)
    IN IF hit[1] = "NONE" THEN [tp |-> "NONE", size |-> 0]
       ELSE [tp |-> hit[1],
             size |-> Len(DirOf(d, path)[Key(set_extension(path, hit[2]))].body)]

Kind(is_dir) == IF is_dir THEN "Directory" ELSE "RegularFile"

\* DirEntry::new: the entry of the sidecar at file_path, whose inode is ino
DirEntryNew(d, file_path, ino, json_data) ==
    LET t == determine_entry_type(d, file_path)
    IN [prefix |-> file_path.stem,
        entry_type |-> t.tp,
        name |-> json_data.visible_name,
        parent |-> json_data.parent,
        attr |-> [ino |-> ino, size |-> t.size, kind |-> Kind(t.tp = "NONE")],
        json_metadata |-> json_data]

make_root ==
    [prefix |-> ROOT_PREFIX, entry_type |-> "NONE", name |-> ROOT_NAME,
     parent |-> "",
     attr |-> [ino |-> ROOT_INO, size |-> 0, kind |-> "Directory"],
     json_metadata |-> new_file(ROOT_NAME, "")]

make_trash ==
    [prefix |-> TRASH_PREFIX, entry_type |-> "NONE", name |-> TRASH_NAME,
     parent |-> "",
     attr |-> [ino |-> TRASH_INO, size |-> 0, kind |-> "Directory"],
     json_metadata |-> new_file(TRASH_NAME, "")]

source_file_path(e) ==
    set_extension(
        IF e.entry_type = "PENDING" THEN PendingPath(e.prefix, "")
        ELSE RootPath(e.prefix, ""),
        entry_type_ext(e.entry_type))

metadata_file_name(e) ==
    set_extension(
        IF e.entry_type = "PENDING" THEN PendingPath(e.prefix, "")
        ELSE RootPath(e.prefix, ""),
        "metadata")

\* PathBuf::set_extension on the visible name: an extension the name has is
\* replaced, an empty extension removes it, the empty name is left alone
file_name(e) ==
    IF e.name = ROOT_NAME THEN e.name
    ELSE <<e.name[1], entry_type_ext(e.entry_type)>>

is_parent(e, parent) ==
    (parent.name = <<".", "">> /\ e.parent = "") \/ e.parent = parent.prefix

\* the inode of R/<parent>.metadata.  For an empty parent the path built is
\* the store directory's own name with the extension metadata, a sibling of
\* the store that is taken not to exist: the open fails.
parent_inode(d, e) ==
    IF e.parent = TRASH_PREFIX THEN [ok |-> TRUE, ino |-> TRASH_INO]
    ELSE IF e.parent # "" /\ exists(d, RootPath(e.parent, "metadata"))
    THEN [ok |-> TRUE, ino |-> d.root[<<e.parent, "metadata">>].ino]
    ELSE [ok |-> FALSE, ino |-> 0]

\* e.parent_inode().unwrap_or(1)
parent_inode_or_root(d, e) ==
    IF parent_inode(d, e).ok THEN parent_inode(d, e).ino ELSE ROOT_INO

\* DirEntry::create_entry with the prefix uuid; ino is the inode a new file gets
create_entry(d, parent_dir, name, is_dir, uuid, ino) ==
    LET entry == [prefix |-> uuid,
                  entry_type |-> IF is_dir THEN "NONE" ELSE "PENDING",
                  name |-> name,
                  parent |-> parent_dir.prefix,
                  attr |-> [ino |-> 0, size |-> 0, kind |-> Kind(is_dir)],
                  json_metadata |-> IF is_dir THEN new_dir(name, parent_dir.prefix)
                                    ELSE new_file(name, parent_dir.prefix)]
        d1 == IF is_dir \/ d.pending_exists THEN d ELSE create_dir_pending(d)
        s == save_file(d1, entry.json_metadata,
                       IF is_dir THEN metadata_file_name(entry)
                       ELSE PendingPath(entry.prefix, "metadata"),
                       ino)
    IN IF s.ok
       THEN [ok |-> TRUE, disk |-> s.disk,
             entry |-> [entry EXCEPT !.attr.ino = s.ino]]
       ELSE [ok |-> FALSE, disk |-> d1, entry |-> entry]

make_dir(d, parent_dir, name, uuid, ino) ==
    create_entry(d, parent_dir, name, TRUE, uuid, ino)

make_file(d, parent_dir, name, uuid, ino) ==
    create_entry(d, parent_dir, name, FALSE, uuid, ino)

\* removes the payload and the sidecar where source_file_path and
\* metadata_file_name say they are, each only if it exists
forget_pending(d, e) ==
    LET d1 == IF exists(d, source_file_path(e))
              THEN remove_file(d, source_file_path(e)).disk ELSE d
    IN IF exists(d1, metadata_file_name(e))
       THEN remove_file(d1, metadata_file_name(e)).disk ELSE d1

\* the content marker's body, {"fileType": ext}
ContentData(e) == [fileType |-> entry_type_ext(e.entry_type)]

\* moves the payload, then the sidecar, then writes the marker; the first
\* step that fails ends it, with what the earlier steps did left in place
finalize_pending(d, e) ==
    IF e.entry_type = "NONE" \/ e.entry_type = "PENDING"
    THEN [ok |-> FALSE, err |-> "EPERM", disk |-> d]
    ELSE
    LET source_path == PendingPath(e.prefix, "")
        r1 == fs_rename(d, source_path, source_file_path(e))
        r2 == fs_rename(r1.disk, set_extension(source_path, "metadata"),
                        metadata_file_name(e))
        w == fs_write(r2.disk, set_extension(metadata_file_name(e), "content"),
                      ContentData(e), 0)
    IN IF ~r1.ok THEN [ok |-> FALSE, err |-> "ENOENT", disk |-> d]
       ELSE IF ~r2.ok THEN [ok |-> FALSE, err |-> "ENOENT", disk |-> r1.disk]
       ELSE [ok |-> w.ok, err |-> IF w.ok THEN "" ELSE "EIO", disk |-> w.disk]

\* a finalize_pending that marks the ingest before it moves its files
finalize_marker_first(d, e, n) ==
    IF e.entry_type = "NONE" \/ e.entry_type = "PENDING" THEN d
    ELSE
    LET source_path == PendingPath(e.prefix, "")
        w == fs_write(d, set_extension(metadata_file_name(e), "content"),
                      ContentData(e), 0)
        r1 == fs_rename(w.disk, source_path, source_file_path(e))
        r2 == fs_rename(r1.disk, set_extension(source_path, "metadata"),
                        metadata_file_name(e))
    IN IF n = 0 THEN d
       ELSE IF n = 1 \/ ~r1.ok THEN w.disk
       ELSE IF n = 2 \/ ~r2.ok THEN r1.disk
       ELSE r2.disk

\* the store when finalize_pending ends after its first n steps, because the
\* process dies there or because the next step fails
finalize_cut(d, e, n) ==
    IF e.entry_type = "NONE" \/ e.entry_type = "PENDING" THEN d
    ELSE
    LET source_path == PendingPath(e.prefix, "")
        r1 == fs_rename(d, source_path, source_file_path(e))
        r2 == fs_rename(r1.disk, set_extension(source_path, "metadata"),
                        metadata_file_name(e))
        w == fs_write(r2.disk, set_extension(metadata_file_name(e), "content"),
                      ContentData(e), 0)
    IN IF n = 0 \/ ~r1.ok THEN d
       ELSE IF n = 1 \/ ~r2.ok THEN r1.disk
       ELSE IF n = 2 THEN r2.disk
       ELSE w.disk

\* DirEntry::rename: the sidecar is rewritten where metadata_file_name says
entry_rename(d, e, newparent, newname, ino) ==
    LET json_data == [e.json_metadata EXCEPT !.visible_name = newname,
                                             !.parent = newparent.prefix]
        s == save_file(d, json_data, metadata_file_name(e), ino)
    IN [ok |-> s.ok, disk |-> s.disk,
        entry |-> [e EXCEPT !.name = newname, !.parent = newparent.prefix,
                            !.json_metadata = json_data]]

\* infer::get on the first bytes of a buffer: the extension of the type found
infer_get(buf) ==
    IF Len(buf) = 0 THEN [some |-> FALSE, ext |-> ""]
    ELSE IF buf[1] = "%PDF" THEN [some |-> TRUE, ext |-> "pdf"]
    ELSE IF buf[1] = "PKepub" THEN [some |-> TRUE, ext |-> "epub"]
    ELSE IF buf[1] = "PKzip" THEN [some |-> TRUE, ext |-> "zip"]
    ELSE [some |-> FALSE, ext |-> ""]

update_type(e, buf) ==
    LET tp == infer_get(buf)
    IN IF tp.some /\ ext_entry_type(tp.ext) # "NONE"
       THEN [ok |-> TRUE, entry |-> [e EXCEPT !.entry_type = ext_entry_type(tp.ext)]]
       ELSE [ok |-> FALSE, entry |-> e]

---------------------------------------------------------------------------
(* Store scanner and entry resolution: rmxfs.rs *)

\* the *.metadata files directly under the store root
Sidecars(d) == {k \in DOMAIN d.root : k[2] = "metadata"}

\* the scan fails when one sidecar does not parse: no partial list is returned
scan_ok(d) == \A k \in Sidecars(d) : parses(d.root[k].body)

\* one entry per *.metadata file directly under the store root
Scanned(d) ==
    {DirEntryNew(d, RootPath(k[1], "metadata"), d.root[k].ino,
                 from_file(d, RootPath(k[1], "metadata")))
       : k \in Sidecars(d)}

\* every sequence that lists the elements of S once
RECURSIVE Orders(_)
Orders(S) ==
    IF S = {} THEN {<<>>}
    ELSE UNION {{<<x>> \o o : o \in Orders(S \ {x})} : x \in S}

\* the lists a scan may return: the synthetic trash entry, then the scanned
\* entries in the order read_dir happens to give; no list when the scan fails
list_dir_metadata(d) ==
    IF scan_ok(d) THEN {<<make_trash>> \o o : o \in Orders(Scanned(d))} ELSE {}

\* the entries of a scan, in no order
Files(d) == IF scan_ok(d) THEN {make_trash} \cup Scanned(d) ELSE {}

\* the entries files.into_iter().find(pred) may return over those lists, hits
\* being the entries of Files(d) the predicate holds of
find_file(d, hits) ==
    IF make_trash \in hits THEN {make_trash}
    ELSE hits

dir_from_ino(d, ino) ==
    IF ino = ROOT_INO THEN {make_root}
    ELSE find_file(d, {e \in Files(d) : e.attr.ino = ino})


---------------------------------------------------------------------------
(* Callbacks: rmxfs.rs, impl Filesystem for RMXFS.                         *)
(* A callback is modelled by the outcomes it may have in a state: what it  *)
(* replies and the state it leaves.                                        *)

\* the program's state as one value
St ==
    [disk |-> disk, dir_map |-> dir_map, file_map |-> file_map,
     pending_map |-> pending_map, next_uuid |-> next_uuid, next_ino |-> next_ino]

\* an outcome: the errno replied ("ok" for a success payload), from the
\* payload or the call the inode (or handle) and the prefix of the entry the
\* callback worked on, and the state left
Out(err, ino, prefix, st) == [err |-> err, ino |-> ino, prefix |-> prefix, st |-> st]

\* the handler returns without using its reply object (the fuser library
\* then answers the kernel itself when the object is dropped)
NOREPLY == "NOREPLY"

NoAttr == [ino |-> 0, size |-> 0, kind |-> ""]

---------------------------------------------------------------------------
(* Faulty variants of callbacks.  A property that is to tell a right       *)
(* callback from a wrong one must fail when the variant stands in for it.  *)

\* release that forgets the handle whatever its count is
release_drops_handle(s, fh) ==
    IF fh \in DOMAIN s.pending_map
    THEN LET entry == s.pending_map[fh].entry
             f == finalize_pending(s.disk, entry)
         IN {Out(IF f.ok THEN "ok" ELSE "EIO", fh, entry.prefix,
                 [s EXCEPT !.disk = f.disk,
                           !.pending_map = Restrict(s.pending_map,
                                                    DOMAIN s.pending_map \ {fh})])}
    ELSE IF fh \in DOMAIN s.file_map
    THEN {Out("ok", fh, "",
              [s EXCEPT !.file_map = Restrict(s.file_map, DOMAIN s.file_map \ {fh})])}
    ELSE {Out("ENOENT", 0, "", s)}

\* release that keeps the handle of an ingest it could not promote
release_keeps_failed(s, fh) ==
    IF fh \in DOMAIN s.pending_map
    THEN LET entry == s.pending_map[fh].entry
             f == finalize_pending(s.disk, entry)
         IN {Out(IF f.ok THEN "ok" ELSE "EIO", fh, entry.prefix,
                 [s EXCEPT !.disk = f.disk,
                           !.pending_map =
                               IF f.ok THEN Restrict(s.pending_map,
                                                     DOMAIN s.pending_map \ {fh})
                               ELSE s.pending_map])}
    ELSE IF fh \in DOMAIN s.file_map
    THEN {Out("ok", fh, "",
              [s EXCEPT !.file_map =
                  IF s.file_map[fh].counter > 1
                  THEN [s.file_map EXCEPT ![fh].counter = @ - 1]
                  ELSE Restrict(s.file_map, DOMAIN s.file_map \ {fh})])}
    ELSE {Out("ENOENT", 0, "", s)}

\* release that answers ok for a staged ingest without promoting it
release_keeps_staging(s, fh) ==
    IF fh \in DOMAIN s.pending_map
    THEN {Out("ok", fh, s.pending_map[fh].entry.prefix,
              [s EXCEPT !.pending_map = Restrict(s.pending_map,
                                                 DOMAIN s.pending_map \ {fh})])}
    ELSE IF fh \in DOMAIN s.file_map
    THEN {Out("ok", fh, "",
              [s EXCEPT !.file_map =
                  IF s.file_map[fh].counter > 1
                  THEN [s.file_map EXCEPT ![fh].counter = @ - 1]
                  ELSE Restrict(s.file_map, DOMAIN s.file_map \ {fh})])}
    ELSE {Out("ENOENT", 0, "", s)}

\* rmdir that does not look for children
rmdir_ignores_children(s, parent, name) ==
    IF dir_from_ino(s.disk, parent) = {} THEN {Out("ENOENT", 0, "", s)}
    ELSE UNION
    { LET found == find_file(s.disk,
            {e \in Files(s.disk) :
                e.parent = parent_dir.prefix /\ name = e.name})
      IN IF found = {} THEN {Out("ENOENT", 0, "", s)}
         ELSE { LET r == remove_file(s.disk, metadata_file_name(dir))
                IN Out(IF r.ok THEN "ok" ELSE "EIO", dir.attr.ino, dir.prefix,
                       [s EXCEPT !.disk = r.disk])
                : dir \in found }
      : parent_dir \in dir_from_ino(s.disk, parent) }

\* unlink that does not look at file_map
unlink_ignores_open(s, parent, name) ==
    IF dir_from_ino(s.disk, parent) = {} THEN {Out("ENOENT", 0, "", s)}
    ELSE UNION
    { LET found == find_file(s.disk,
            {e \in Files(s.disk) :
                parent_dir.prefix = e.parent /\ name = file_name(e)})
      IN IF found = {} THEN {Out("ENOENT", 0, "", s)}
         ELSE { LET r1 == remove_file(s.disk, source_file_path(entry))
                    r2 == remove_file(r1.disk, metadata_file_name(entry))
                    r3 == remove_file(r2.disk,
                                      set_extension(metadata_file_name(entry), "content"))
                IN IF ~r1.ok THEN Out("EIO", entry.attr.ino, entry.prefix, s)
                   ELSE Out(IF r2.ok THEN "ok" ELSE "EIO", entry.attr.ino,
                            entry.prefix, [s EXCEPT !.disk = r3.disk])
                : entry \in found }
      : parent_dir \in dir_from_ino(s.disk, parent) }

\* the answers lookup may give: [err, prefix, attr]
lookup_reply(d, parent, name) ==
    LET found == find_file(d,
            {e \in Files(d) :
                name = file_name(e) /\ parent = parent_inode_or_root(d, e)})
    IN IF found = {} THEN {[err |-> "ENOENT", prefix |-> "", attr |-> NoAttr]}
       ELSE {[err |-> "ok", prefix |-> entry.prefix, attr |-> entry.attr]
               : entry \in found}

getattr_reply(d, pending, ino) ==
    IF ino \in DOMAIN pending
    THEN {[err |-> "ok", prefix |-> pending[ino].entry.prefix,
           attr |-> pending[ino].entry.attr, from |-> "pending_map"]}
    ELSE IF dir_from_ino(d, ino) = {}
    THEN {[err |-> "ENOENT", prefix |-> "", attr |-> NoAttr, from |-> ""]}
    ELSE {[err |-> "ok", prefix |-> entry.prefix, attr |-> entry.attr, from |-> "scan"]
            : entry \in dir_from_ino(d, ino)}

create_reply(s, parent, name, flags) ==
    IF dir_from_ino(s.disk, parent) = {} THEN {Out(NOREPLY, 0, "", s)}
    ELSE
    { IF \E k \in DOMAIN s.pending_map :
            /\ s.pending_map[k].entry.name = name
            /\ parent_inode_or_root(s.disk, s.pending_map[k].entry) = parent
      THEN Out("EEXIST", 0, "", s)
      ELSE IF find_file(s.disk,
              {e \in Files(s.disk) :
                  name = file_name(e) /\ parent = parent_inode_or_root(s.disk, e)}) # {}
      THEN Out("EEXIST", 0, "", s)
      ELSE IF flags # "O_WRONLY"
      THEN Out("EINVAL", 0, "", s)
      ELSE
        LET m == make_file(s.disk, parent_dir, name, Uuid(s.next_uuid), s.next_ino)
            \* File::create of the payload at source_file_path
            c == fs_write(m.disk, source_file_path(m.entry), <<>>, 0)
            ids == [s EXCEPT !.next_uuid = @ + 1, !.next_ino = @ + 1]
        IN IF m.ok /\ c.ok
           THEN Out("ok", m.entry.attr.ino, m.entry.prefix,
                    [ids EXCEPT !.disk = c.disk,
                                !.pending_map = (m.entry.attr.ino :>
                                                   [entry |-> m.entry, file |-> <<>>])
                                                @@ s.pending_map])
           ELSE Out("EIO", 0, m.entry.prefix,
                    [ids EXCEPT !.disk = IF m.ok THEN c.disk ELSE m.disk])
      : parent_dir \in dir_from_ino(s.disk, parent) }

mkdir_reply(s, parent, name) ==
    IF name[2] # "" THEN {Out("ENOSYS", 0, "", s)}
    ELSE IF dir_from_ino(s.disk, parent) = {} THEN {Out("ENOENT", 0, "", s)}
    ELSE
    { LET m == make_dir(s.disk, parent_dir, name, Uuid(s.next_uuid), s.next_ino)
          st == [s EXCEPT !.disk = m.disk, !.next_uuid = @ + 1, !.next_ino = @ + 1]
      IN IF m.ok THEN Out("ok", m.entry.attr.ino, m.entry.prefix, st)
         ELSE Out("EIO", 0, m.entry.prefix, st)
      : parent_dir \in dir_from_ino(s.disk, parent) }

rmdir_reply(s, parent, name) ==
    IF dir_from_ino(s.disk, parent) = {} THEN {Out("ENOENT", 0, "", s)}
    ELSE UNION
    { LET found == find_file(s.disk,
            {e \in Files(s.disk) :
                e.parent = parent_dir.prefix /\ name = e.name})
      IN IF found = {} THEN {Out("ENOENT", 0, "", s)}
         ELSE { IF find_file(s.disk,
                 {e \in Files(s.disk) :
                     e.parent = dir.prefix}) # {}
                THEN Out("ENOTEMPTY", dir.attr.ino, dir.prefix, s)
                ELSE LET r == remove_file(s.disk, metadata_file_name(dir))
                     IN Out(IF r.ok THEN "ok" ELSE "EIO", dir.attr.ino, dir.prefix,
                            [s EXCEPT !.disk = r.disk])
                : dir \in found }
      : parent_dir \in dir_from_ino(s.disk, parent) }

unlink_reply(s, parent, name) ==
    IF dir_from_ino(s.disk, parent) = {} THEN {Out("ENOENT", 0, "", s)}
    ELSE UNION
    { LET found == find_file(s.disk,
            {e \in Files(s.disk) :
                parent_dir.prefix = e.parent /\ name = file_name(e)})
      IN IF found = {} THEN {Out("ENOENT", 0, "", s)}
         ELSE { IF entry.attr.ino \in DOMAIN s.file_map
                THEN Out("EBUSY", entry.attr.ino, entry.prefix, s)
                ELSE
                LET r1 == remove_file(s.disk, source_file_path(entry))
                    r2 == remove_file(r1.disk, metadata_file_name(entry))
                    \* best effort: the result is dropped
                    r3 == remove_file(r2.disk,
                                      set_extension(metadata_file_name(entry), "content"))
                IN IF ~r1.ok THEN Out("EIO", entry.attr.ino, entry.prefix, s)
                   ELSE Out(IF r2.ok THEN "ok" ELSE "EIO", entry.attr.ino,
                            entry.prefix, [s EXCEPT !.disk = r3.disk])
                : entry \in found }
      : parent_dir \in dir_from_ino(s.disk, parent) }

rename_reply(s, parent, name, newparent, newname) ==
    LET found == find_file(s.disk,
            {e \in Files(s.disk) :
                parent_inode_or_root(s.disk, e) = parent /\ file_name(e) = name})
    IN IF found = {} THEN {Out("ENOENT", 0, "", s)}
       ELSE UNION
       { IF dir_from_ino(s.disk, newparent) = {}
         THEN {Out("ENOENT", entry.attr.ino, entry.prefix, s)}
         ELSE { LET r == entry_rename(s.disk, entry, parent_entry, newname, s.next_ino)
                    \* a sidecar that was not there is a new file, with a new inode
                    st == [s EXCEPT !.disk = r.disk,
                                    !.next_ino =
                                        IF exists(s.disk, metadata_file_name(entry))
                                        THEN @ ELSE @ + 1]
                IN Out(IF r.ok THEN "ok" ELSE "EIO", entry.attr.ino, entry.prefix, st)
                : parent_entry \in dir_from_ino(s.disk, newparent) }
         : entry \in found }

open_reply(s, ino) ==
    IF ino \in DOMAIN s.file_map
    THEN {Out("ok", ino, "", [s EXCEPT !.file_map[ino].counter = @ + 1])}
    ELSE LET found == find_file(s.disk,
            {e \in Files(s.disk) :
                ino = e.attr.ino})
         IN IF found = {} THEN {Out("ENOENT", 0, "", s)}
            ELSE { LET path == RootPath(entry.prefix, entry_type_ext(entry.entry_type))
                   IN IF exists(s.disk, path)
                      THEN Out("ok", ino, entry.prefix,
                               [s EXCEPT !.file_map =
                                   (ino :> [counter |-> 1,
                                            file |-> s.disk.root[Key(path)].body])
                                   @@ s.file_map])
                      ELSE Out("ENODATA", ino, entry.prefix, s)
                   : entry \in found }

\* from marks the table the handle was found in
release_reply(s, fh) ==
    IF fh \in DOMAIN s.pending_map
    THEN LET entry == s.pending_map[fh].entry
             f == finalize_pending(s.disk, entry)
         IN {Out(IF f.ok THEN "ok" ELSE "EIO", fh, entry.prefix,
                 [s EXCEPT !.disk = f.disk,
                           !.pending_map = Restrict(s.pending_map,
                                                    DOMAIN s.pending_map \ {fh})])}
    ELSE IF fh \in DOMAIN s.file_map
    THEN {Out("ok", fh, "",
              [s EXCEPT !.file_map =
                  IF s.file_map[fh].counter > 1
                  THEN [s.file_map EXCEPT ![fh].counter = @ - 1]
                  ELSE Restrict(s.file_map, DOMAIN s.file_map \ {fh})])}
    ELSE {Out("ENOENT", 0, "", s)}

\* `as u32` keeps the low 32 bits.  The model's integers stop below 2^32, so
\* the word of the model is U32Bits bits wide; every length of Spec is
\* smaller than 2^U32Bits, where the cast changes nothing.
U32Bits == 2 * MaxLen + 2
U32(n) == n % (2 ^ U32Bits)
saturating_sub(a, b) == IF a > b THEN a - b ELSE 0

read_reply(files, fh, offset, size) ==
    IF fh \in DOMAIN files
    THEN LET file == files[fh].file
             file_size == Len(file)
             read_size == Min(size, U32(saturating_sub(file_size, offset)))
         IN \* read_exact_at fails when the file ends before the buffer is
            \* full, and reads nothing into an empty buffer
            IF read_size = 0 \/ offset + read_size <= file_size
            THEN [err |-> "ok", data |-> SubSeq(file, offset + 1, offset + read_size)]
            ELSE [err |-> "EIO", data |-> <<>>]
    ELSE [err |-> "ENOENT", data |-> <<>>]

write_reply(s, fh, offset, data) ==
    IF fh \in DOMAIN s.pending_map
    THEN LET entry == s.pending_map[fh].entry
             u == update_type(entry, data)
         IN IF offset = 0 /\ ~u.ok
            THEN {Out("ENOSYS", fh, entry.prefix,
                      [s EXCEPT !.disk = forget_pending(s.disk, entry)])}
            ELSE LET bytes == WriteAt(s.pending_map[fh].file, offset, data)
                     payload == PendingPath(entry.prefix, "")
                 IN {Out("ok", fh, entry.prefix,
                         [s EXCEPT
                            !.pending_map[fh] =
                                [entry |-> IF offset = 0 THEN u.entry ELSE entry,
                                 file |-> bytes],
                            \* the handle is the file created at .pending/<prefix>:
                            \* the bytes are seen there while it has that name
                            !.disk = IF exists(s.disk, payload)
                                     THEN [s.disk EXCEPT
                                             !.pending[Key(payload)].body = bytes]
                                     ELSE s.disk])}
    ELSE {Out("ENOENT", 0, "", s)}

\* opendir that keeps every scanned entry in its snapshot
opendir_keeps_all(s, ino) ==
    IF dir_from_ino(s.disk, ino) = {} THEN {Out("ENOENT", 0, "", s)}
    ELSE UNION
    { IF ino \in DOMAIN s.dir_map
      THEN {Out("ok", ino, parent.prefix,
                [s EXCEPT !.dir_map[ino].counter = @ + 1])}
      ELSE IF list_dir_metadata(s.disk) = {} THEN {Out("ENOENT", 0, "", s)}
      ELSE { Out("ok", ino, parent.prefix,
                 [s EXCEPT !.dir_map =
                     (ino :> [counter |-> 1, entries |-> entries]) @@ s.dir_map])
             : entries \in list_dir_metadata(s.disk) }
      : parent \in dir_from_ino(s.disk, ino) }

\* opendir that scans again when the inode is already open
opendir_rescans(s, ino) ==
    IF dir_from_ino(s.disk, ino) = {} THEN {Out("ENOENT", 0, "", s)}
    ELSE UNION
    { IF list_dir_metadata(s.disk) = {} THEN {Out("ENOENT", 0, "", s)}
      ELSE { Out("ok", ino, parent.prefix,
                 [s EXCEPT !.dir_map =
                     (ino :> [counter |-> IF ino \in DOMAIN s.dir_map
                                          THEN s.dir_map[ino].counter + 1 ELSE 1,
                              entries |-> SelectSeq(entries,
                                            LAMBDA e : is_parent(e, parent))])
                     @@ s.dir_map])
             : entries \in list_dir_metadata(s.disk) }
      : parent \in dir_from_ino(s.disk, ino) }

opendir_reply(s, ino) ==
    IF dir_from_ino(s.disk, ino) = {} THEN {Out("ENOENT", 0, "", s)}
    ELSE UNION
    { IF ino \in DOMAIN s.dir_map
      THEN {Out("ok", ino, parent.prefix,
                [s EXCEPT !.dir_map[ino].counter = @ + 1])}
      ELSE IF list_dir_metadata(s.disk) = {} THEN {Out("ENOENT", 0, "", s)}
      ELSE { Out("ok", ino, parent.prefix,
                 [s EXCEPT !.dir_map =
                     (ino :> [counter |-> 1,
                              entries |-> SelectSeq(entries,
                                            LAMBDA e : is_parent(e, parent))])
                     @@ s.dir_map])
             : entries \in list_dir_metadata(s.disk) }
      : parent \in dir_from_ino(s.disk, ino) }

releasedir_reply(s, fh) ==
    IF fh \in DOMAIN s.dir_map
    THEN {Out("ok", fh, "",
              [s EXCEPT !.dir_map =
                  IF s.dir_map[fh].counter > 1
                  THEN [s.dir_map EXCEPT ![fh].counter = @ - 1]
                  ELSE Restrict(s.dir_map, DOMAIN s.dir_map \ {fh})])}
    ELSE {Out("ENOENT", 0, "", s)}

\* what readdir adds to its reply for the entry at index i (from 0)
DirItem(entry, i) ==
    [ino |-> entry.attr.ino, next_offset |-> i + 1,
     kind |-> IF entry.entry_type = "PDF" THEN "RegularFile" ELSE "Directory",
     name |-> file_name(entry)]

\* the reply buffer is taken to hold every entry
readdir_reply(dirs, fh, offset) ==
    IF fh \in DOMAIN dirs
    THEN LET entries == dirs[fh].entries
         IN [err |-> "ok",
             items |-> [k \in 1..saturating_sub(Len(entries), offset) |->
                          DirItem(entries[offset + k], offset + k - 1)]]
    ELSE [err |-> "ENOENT", items |-> <<>>]

---------------------------------------------------------------------------
(* The state machine: one action per callback *)

\* the bounds of the model, on the state a callback leaves
Bounded(s) ==
    /\ s.next_uuid <= MaxPrefix + 1
    /\ s.next_ino <= MaxIno + 1
    /\ Cardinality(DOMAIN s.pending_map) <= MaxPending
    /\ Cardinality(DOMAIN s.file_map) <= MaxHandles
    /\ Cardinality(DOMAIN s.dir_map) <= MaxHandles
    /\ \A k \in DOMAIN s.file_map : s.file_map[k].counter <= MaxRef
    /\ \A k \in DOMAIN s.dir_map : s.dir_map[k].counter <= MaxRef

Step(s) ==
    /\ Bounded(s)
    /\ disk' = s.disk
    /\ dir_map' = s.dir_map
    /\ file_map' = s.file_map
    /\ pending_map' = s.pending_map
    /\ next_uuid' = s.next_uuid
    /\ next_ino' = s.next_ino

lookup(parent, name) ==
    /\ lookup_reply(disk, parent, name) # {}
    /\ UNCHANGED vars

getattr(ino) ==
    /\ getattr_reply(disk, pending_map, ino) # {}
    /\ UNCHANGED vars

create(parent, name, flags) ==
    /\ \E r \in create_reply(St, parent, name, flags) : Step(r.st)
    /\ UNCHANGED <<n_rename, opens, opendirs>>

mkdir(parent, name) ==
    /\ \E r \in mkdir_reply(St, parent, name) : Step(r.st)
    /\ UNCHANGED <<n_rename, opens, opendirs>>

rmdir(parent, name) ==
    /\ \E r \in rmdir_reply(St, parent, name) : Step(r.st)
    /\ UNCHANGED <<n_rename, opens, opendirs>>

unlink(parent, name) ==
    /\ \E r \in unlink_reply(St, parent, name) : Step(r.st)
    /\ UNCHANGED <<n_rename, opens, opendirs>>

rename(parent, name, newparent, newname) ==
    /\ \E r \in rename_reply(St, parent, name, newparent, newname) :
         /\ Step(r.st)
         /\ n_rename' = IF r.st = St THEN n_rename ELSE n_rename + 1
         /\ n_rename' <= MaxRename
    /\ UNCHANGED <<opens, opendirs>>

open(ino) ==
    /\ \E r \in open_reply(St, ino) :
         /\ Step(r.st)
         /\ opens' = IF r.err = "ok" THEN [opens EXCEPT ![ino] = @ + 1] ELSE opens
    /\ UNCHANGED <<n_rename, opendirs>>

release(fh) ==
    /\ \E r \in release_reply(St, fh) :
         /\ Step(r.st)
         /\ opens' = IF r.err = "ok" /\ fh \notin DOMAIN pending_map
                     THEN [opens EXCEPT ![fh] = @ - 1] ELSE opens
    /\ UNCHANGED <<n_rename, opendirs>>

read(fh, offset, size) ==
    /\ read_reply(file_map, fh, offset, size).err # NOREPLY
    /\ UNCHANGED vars

write(fh, offset, data) ==
    /\ \E r \in write_reply(St, fh, offset, data) : Step(r.st)
    /\ UNCHANGED <<n_rename, opens, opendirs>>

opendir(ino) ==
    /\ \E r \in opendir_reply(St, ino) :
         /\ Step(r.st)
         /\ opendirs' = IF r.err = "ok" THEN [opendirs EXCEPT ![ino] = @ + 1]
                        ELSE opendirs
    /\ UNCHANGED <<n_rename, opens>>

releasedir(fh) ==
    /\ \E r \in releasedir_reply(St, fh) :
         /\ Step(r.st)
         /\ opendirs' = IF r.err = "ok" THEN [opendirs EXCEPT ![fh] = @ - 1]
                        ELSE opendirs
    /\ UNCHANGED <<n_rename, opens>>

readdir(fh, offset) ==
    /\ readdir_reply(dir_map, fh, offset).err # NOREPLY
    /\ UNCHANGED vars

\* The process dies in release(fh) of a staged ingest, after the first n
\* steps of finalize_pending, and is started again: RMXFS::new over the
\* store as it was left, with no handle open.
CutPoints == 0..2

release_cut(fh, n) ==
    /\ fh \in DOMAIN pending_map
    /\ disk' = finalize_cut(disk, pending_map[fh].entry, n)
    /\ pending_map' = EmptyFn
    /\ file_map' = EmptyFn
    /\ dir_map' = EmptyFn
    /\ opens' = [i \in Inodes |-> 0]
    /\ opendirs' = [i \in Inodes |-> 0]
    /\ UNCHANGED <<next_uuid, next_ino, n_rename>>

ReleaseCut == \E fh \in Inodes, n \in CutPoints : release_cut(fh, n)

\* Another process that shares the store directory leaves a sidecar there
\* that does not parse; from then on from_file fails in every scan.
FOREIGN_PREFIX == "x"
Malformed == [parent |-> "", visibleName |-> ROOT_NAME, type |-> "", tail |-> {}]

damage ==
    /\ ~exists(disk, RootPath(FOREIGN_PREFIX, "metadata"))
    /\ disk' = fs_write(disk, RootPath(FOREIGN_PREFIX, "metadata"), Malformed, 0).disk
    /\ UNCHANGED <<dir_map, file_map, pending_map, next_uuid, next_ino, n_rename,
                   opens, opendirs>>

\* RMXFS::new over an empty store
Init ==
    /\ disk = [root |-> EmptyFn, pending_exists |-> FALSE, pending |-> EmptyFn]
    /\ dir_map = EmptyFn
    /\ file_map = EmptyFn
    /\ pending_map = EmptyFn
    /\ next_uuid = 1
    /\ next_ino = TRASH_INO + 1
    /\ n_rename = 0
    /\ opens = [i \in Inodes |-> 0]
    /\ opendirs = [i \in Inodes |-> 0]

Lookup == \E parent \in Inodes, name \in CallNames : lookup(parent, name)
Getattr == \E ino \in Inodes : getattr(ino)
Create ==
    \E parent \in Inodes, name \in Names, flags \in OpenFlags :
        create(parent, name, flags)
Mkdir == \E parent \in Inodes, name \in Names : mkdir(parent, name)
Rmdir == \E parent \in Inodes, name \in CallNames : rmdir(parent, name)
Unlink == \E parent \in Inodes, name \in CallNames : unlink(parent, name)
Rename ==
    \E parent \in Inodes, name \in CallNames, newparent \in Inodes,
       newname \in NewNames :
        rename(parent, name, newparent, newname)
\* A store that holds one ingested PDF of every size up to MaxFileSize, and
\* no handle open: the state after create, writes and release of that
\* document.  read is called with every offset up to the size of the file and
\* every size of the (scaled) 32-bit range.
MaxFileSize == 2 ^ U32Bits + 1
FileSizes == 1..MaxFileSize
ReadOffsets == 0..MaxFileSize
ReadSizes == 0..(2 ^ U32Bits - 1)

Payload(n) == [i \in 1..n |-> IF i = 1 THEN "%PDF" ELSE ToString(i)]

Ingested(payload) ==
    LET e == [prefix |-> Uuid(1), entry_type |-> "PDF"]
    IN [root |-> (Key(source_file_path(e)) :> [ino |-> 0, body |-> payload])
                 @@ (Key(metadata_file_name(e)) :>
                       [ino |-> TRASH_INO + 1,
                        body |-> to_vec(new_file(<<"a", "">>, ROOT_PREFIX))])
                 @@ (Key(set_extension(metadata_file_name(e), "content")) :>
                       [ino |-> 0, body |-> ContentData(e)]),
        pending_exists |-> TRUE,
        pending |-> EmptyFn]

InitRead ==
    /\ \E n \in FileSizes : disk = Ingested(Payload(n))
    /\ dir_map = EmptyFn
    /\ file_map = EmptyFn
    /\ pending_map = EmptyFn
    /\ next_uuid = 2
    /\ next_ino = TRASH_INO + 2
    /\ n_rename = 0
    /\ opens = [i \in Inodes |-> 0]
    /\ opendirs = [i \in Inodes |-> 0]

ReadAny == \E fh \in Inodes, offset \in ReadOffsets, size \in ReadSizes :
               read(fh, offset, size)

Open == \E ino \in Inodes : open(ino)
Release == \E fh \in Inodes : release(fh)
Read == \E fh \in Inodes, offset \in 0..MaxLen, size \in 0..MaxLen :
            read(fh, offset, size)
Write == \E fh \in Inodes, offset \in Offsets, data \in Datas :
            write(fh, offset, data)
Opendir == \E ino \in Inodes : opendir(ino)
Releasedir == \E fh \in Inodes : releasedir(fh)
Readdir == \E fh \in Inodes, offset \in 0..MaxLen : readdir(fh, offset)


\* every callback, with any argument, at any time
Next ==
    \/ Lookup \/ Getattr \/ Create \/ Write \/ Release \/ Mkdir \/ Rmdir
    \/ Unlink \/ Rename \/ Open \/ Read \/ Opendir \/ Releasedir \/ Readdir

Spec == Init /\ [][Next]_vars

\* The kernel issues only the callbacks that build and remove entries.  None
\* of them reads dir_map, and file_map is read by unlink alone.
NextStore ==
    \/ Lookup \/ Getattr \/ Create \/ Write \/ Release \/ Mkdir \/ Rmdir
    \/ Unlink

SpecStore == Init /\ [][NextStore]_vars

\* The kernel issues only the callbacks that build and rename entries.
NextRename ==
    \/ Lookup \/ Getattr \/ Create \/ Write \/ Release \/ Mkdir \/ Rename

SpecRename == Init /\ [][NextRename]_vars

\* The kernel issues only the callbacks that work on handles, and those that
\* build the stores they are opened on.
NextHandles ==
    \/ Create \/ Write \/ Release \/ Mkdir \/ Unlink
    \/ Open \/ Read \/ Opendir \/ Releasedir \/ Readdir

SpecHandles == Init /\ [][NextHandles]_vars

\* The kernel issues the callbacks that scan the store and those of an
\* ingest, while the store is shared with a process that may damage it.
NextFaults ==
    \/ damage
    \/ Lookup \/ Getattr \/ Create \/ Write \/ Release \/ Open \/ Opendir

SpecFaults == Init /\ [][NextFaults]_vars

\* The kernel issues the callbacks that work on directories: those that
\* build, rename and remove them and those of directory handles.
NextDirs ==
    \/ Mkdir \/ Rmdir \/ Rename \/ Opendir \/ Releasedir \/ Readdir

SpecDirs == Init /\ [][NextDirs]_vars

\* The kernel opens, reads and closes an ingested document and lists the
\* directories.
NextRead ==
    \/ Lookup \/ Getattr \/ Open \/ ReadAny \/ Release
    \/ Opendir \/ Releasedir

SpecRead == InitRead /\ [][NextRead]_vars

\* The kernel issues the callbacks of an ingest and unlink, and the process
\* may die while it promotes an ingest.
NextCrash ==
    \/ Create \/ Write \/ Release \/ ReleaseCut \/ Unlink \/ Mkdir

SpecCrash == Init /\ [][NextCrash]_vars


---------------------------------------------------------------------------
(* Properties *)

\* C1.  Refcount balance: for every inode, file_map (and likewise dir_map)
\* has an entry exactly while successful opens (opendirs) of the inode are
\* unreleased, and the entry's counter is the number of unreleased opens; once
\* every open has been matched by a release the entry is gone.
C1_RefcountBalance ==
    /\ DOMAIN file_map \subseteq Inodes
    /\ DOMAIN dir_map \subseteq Inodes
    /\ \A i \in Inodes :
         /\ opens[i] >= 0
         /\ i \in DOMAIN file_map <=> opens[i] > 0
         /\ i \in DOMAIN file_map => file_map[i].counter = opens[i]
         /\ opendirs[i] >= 0
         /\ i \in DOMAIN dir_map <=> opendirs[i] > 0
         /\ i \in DOMAIN dir_map => dir_map[i].counter = opendirs[i]

\* a file with one unreleased open, whose release removes the entry, beside
\* a directory with two unreleased opendirs
C1_Witness ==
    /\ \E i \in DOMAIN file_map :
         /\ opens[i] = 1
         /\ \A r \in release_reply(St, i) :
              r.err = "ok" /\ i \notin DOMAIN r.st.file_map
    /\ \E j \in DOMAIN dir_map : opendirs[j] = 2 /\ dir_map[j].counter = 2


\* the entry types of a document
Recognised == {"PDF", "EPUB", "RMLINES"}

\* the files under R/.pending that carry a prefix
StagedFiles(d, prefix) == {k \in DOMAIN d.pending : k[1] = prefix}

\* C2.  Promotion on close: when release of a handle that create returned
\* replies ok, an offset-0 write of recognised content had been accepted, and
\* in the state release leaves no file with the entry's prefix is under
\* R/.pending, while R/<prefix>.<ext> (holding the bytes written through the
\* handle), R/<prefix>.metadata and R/<prefix>.content (body
\* {"fileType": <ext>}) are directly under the store root.
C2_PromotionOnClose ==
    \A fh \in DOMAIN pending_map : \A r \in release_reply(St, fh) :
        LET e == pending_map[fh].entry
            p == e.prefix
            ext == entry_type_ext(e.entry_type)
            root == r.st.disk.root
        IN r.err = "ok" =>
             /\ e.entry_type \in Recognised
             /\ StagedFiles(r.st.disk, p) = {}
             /\ <<p, ext>> \in DOMAIN root
             /\ root[<<p, ext>>].body = pending_map[fh].file
             /\ <<p, "metadata">> \in DOMAIN root
             /\ <<p, "content">> \in DOMAIN root
             /\ root[<<p, "content">>].body = [fileType |-> ext]
             /\ ext \in {"pdf", "epub", "rm"}

\* a staged ingest with bytes written whose release replies ok
C2_Witness ==
    \E fh \in DOMAIN pending_map : \E r \in release_reply(St, fh) :
        /\ r.err = "ok"
        /\ Len(pending_map[fh].file) > 0
        /\ StagedFiles(disk, pending_map[fh].entry.prefix) # {}

\* C3.  Rejected write leaves no staging: whenever a write on a pending
\* handle replies ENOSYS, no file with the entry's prefix is under R/.pending
\* in the state the write leaves.
C3_RejectedWriteLeavesNoStaging ==
    \A fh \in DOMAIN pending_map, offset \in Offsets, data \in Datas :
        \A r \in write_reply(St, fh, offset, data) :
            r.err = "ENOSYS" =>
                StagedFiles(r.st.disk, pending_map[fh].entry.prefix) = {}


\* the inode of the live sidecar of a prefix, 0 when there is none
SidecarIno(d, prefix) ==
    IF <<prefix, "metadata">> \in DOMAIN d.root
    THEN d.root[<<prefix, "metadata">>].ino ELSE 0

\* an answer about the synthetic root or the synthetic trash
Synthetic(r) ==
    \/ r.attr.ino = ROOT_INO /\ r.prefix = ROOT_PREFIX
    \/ r.attr.ino = TRASH_INO /\ r.prefix = TRASH_PREFIX

\* an answer that carries the inode of the live sidecar of its entry, which
\* is neither 1 nor 2
FromSidecar(d, r) ==
    /\ r.attr.ino = SidecarIno(d, r.prefix)
    /\ r.attr.ino \notin {ROOT_INO, TRASH_INO}

\* C4.  Inode identity: every successful lookup, and every getattr answered
\* from a scan, reports either a synthetic entry (inode 1 or 2) or the inode
\* of the live sidecar of the entry it found; the inode and handle create
\* returns is the inode of the staged sidecar, and when release promotes the
\* ingest it is the inode of the live sidecar.
C4_InodeIdentity ==
    /\ \A parent \in Inodes, name \in CallNames :
         \A r \in lookup_reply(disk, parent, name) :
            r.err = "ok" => Synthetic(r) \/ FromSidecar(disk, r)
    /\ \A ino \in Inodes : \A r \in getattr_reply(disk, pending_map, ino) :
         /\ r.err = "ok" => r.attr.ino = ino
         /\ r.err = "ok" /\ r.from = "scan" => Synthetic(r) \/ FromSidecar(disk, r)
    /\ \A parent \in Inodes, name \in Names :
         \A r \in create_reply(St, parent, name, "O_WRONLY") :
            r.err = "ok" =>
                /\ r.ino \in DOMAIN r.st.pending_map
                /\ r.st.pending_map[r.ino].entry.attr.ino = r.ino
                /\ r.st.disk.pending[<<r.prefix, "metadata">>].ino = r.ino
    /\ \A fh \in DOMAIN pending_map : \A r \in release_reply(St, fh) :
         r.err = "ok" => SidecarIno(r.st.disk, r.prefix) = fh

\* after a rename, lookup finds a promoted document by the inode create
\* returned for it
C4_Witness ==
    /\ n_rename > 0
    /\ \E parent \in Inodes, name \in CallNames :
         \E r \in lookup_reply(disk, parent, name) :
            /\ r.err = "ok"
            /\ FromSidecar(disk, r)
            /\ <<r.prefix, "content">> \in DOMAIN disk.root


\* the directories an inode names: the synthetic root and trash, and the
\* scanned entries with that inode
EntriesOfIno(d, ino) ==
    {e \in {make_root, make_trash} \cup Scanned(d) : e.attr.ino = ino}

\* an entry with the file name `name` is in the directory with inode
\* `parent`: a live entry that lists under that name, or a staged ingest
\* that was created under it
NameTaken(d, pending, parent, name) ==
    \E parent_dir \in EntriesOfIno(d, parent) :
        \/ \E e \in Scanned(d) : e.parent = parent_dir.prefix /\ file_name(e) = name
        \/ \E k \in DOMAIN pending :
              /\ pending[k].entry.parent = parent_dir.prefix
              /\ pending[k].entry.name = name

\* C5.  Duplicate create: create(parent, name) replies EEXIST whenever an
\* entry with that file name is in the directory `parent`, live or staged,
\* and a create that replies EEXIST leaves the store and pending_map as they
\* were.
C5_DuplicateCreate ==
    \A parent \in Inodes, name \in CallNames, flags \in OpenFlags :
        \A r \in create_reply(St, parent, name, flags) :
            /\ NameTaken(disk, pending_map, parent, name) => r.err = "EEXIST"
            /\ r.err = "EEXIST" => r.st = St

\* the files of a store other than the sidecar of a prefix
OtherFiles(d, prefix) ==
    [root |-> Restrict(d.root, DOMAIN d.root \ {<<prefix, "metadata">>}),
     pending_exists |-> d.pending_exists, pending |-> d.pending]

\* what a successful rename of the entry `old` is to leave: one listed entry
\* with its prefix, with the same inode, type and sidecar tail, the new name
\* and the new parent, and every other file as it was
RenamedTo(d, old, st, newparent, newname) ==
    LET new == {e \in Files(st.disk) : e.prefix = old.prefix}
    IN /\ Cardinality(new) = 1
       /\ \A e \in new :
            /\ e.attr.ino = old.attr.ino
            /\ e.name = newname
            /\ \E pe \in EntriesOfIno(d, newparent) : e.parent = pe.prefix
            /\ e.entry_type = old.entry_type
            /\ e.json_metadata.type = old.json_metadata.type
            /\ e.json_metadata.extra = old.json_metadata.extra
       /\ OtherFiles(st.disk, old.prefix) = OtherFiles(d, old.prefix)
       /\ st.pending_map = pending_map /\ st.file_map = file_map
       /\ st.dir_map = dir_map

\* C6.  Rename keeps identity: after rename(parent, name, newparent, newname)
\* replies ok a scan lists exactly one entry with the renamed entry's prefix;
\* it has the inode it had, the name newname and the prefix of newparent's
\* entry as parent; its type, the tail of its sidecar, its payload and every
\* other entry's sidecar are unchanged.
C6_RenameKeepsIdentity ==
    \A parent \in Inodes, name \in CallNames, newparent \in Inodes,
       newname \in NewNames :
        \A r \in rename_reply(St, parent, name, newparent, newname) :
            r.err = "ok" =>
                \E old \in Files(disk) :
                    /\ old.prefix = r.prefix /\ old.attr.ino = r.ino
                    /\ RenamedTo(disk, old, r.st, newparent, newname)


\* C7.  Parent well-formedness: the parent of every live entry is empty
\* (the root), is `trash`, or is the prefix of a live entry of type NONE.
C7_ParentWellFormed ==
    \A e \in Scanned(disk) :
        \/ e.parent = ROOT_PREFIX
        \/ e.parent = TRASH_PREFIX
        \/ \E p \in Scanned(disk) : p.prefix = e.parent /\ p.entry_type = "NONE"


\* the live entries other than `prefix` whose parent is `prefix`
ChildrenOf(d, prefix) ==
    {e \in Scanned(d) : e.prefix # prefix /\ e.parent = prefix}

C9_RmdirDirectoriesOnly ==
    \A parent \in Inodes, name \in CallNames :
        \A r \in rmdir_reply(St, parent, name) :
            \A e \in Scanned(disk) :
                e.entry_type # "NONE" =>
                    <<e.prefix, "metadata">> \in DOMAIN r.st.disk.root

\* C10.  Unlink of an open file: when the inode of the entry unlink located
\* is a key of file_map, unlink replies EBUSY; an unlink that replies EBUSY
\* leaves the store and the handle tables as they were; and unlink replies
\* EBUSY only while an open of that inode is unreleased.
C10_UnlinkBusy ==
    \A parent \in Inodes, name \in CallNames :
        \A r \in unlink_reply(St, parent, name) :
            /\ r.ino # 0 /\ r.ino \in DOMAIN file_map => r.err = "EBUSY"
            /\ r.err = "EBUSY" => r.st = St /\ opens[r.ino] > 0
            /\ r.err = "EBUSY" =>
                 /\ <<r.prefix, "metadata">> \in DOMAIN r.st.disk.root
                 /\ <<r.prefix, "content">> \in DOMAIN r.st.disk.root
                 /\ \E ext \in {"pdf", "epub", "rm"} :
                       <<r.prefix, ext>> \in DOMAIN r.st.disk.root

\* unlink of a document that is open
C10_Witness ==
    \E parent \in Inodes, name \in CallNames :
        \E r \in unlink_reply(St, parent, name) :
            r.err = "EBUSY" /\ opens[r.ino] = 1


\* the files of a store that do not carry a prefix
FilesNotOf(d, prefix) ==
    [root |-> Restrict(d.root, {k \in DOMAIN d.root : k[1] # prefix}),
     pending_exists |-> d.pending_exists,
     pending |-> Restrict(d.pending, {k \in DOMAIN d.pending : k[1] # prefix})]

\* C11.  Unlink success: after unlink(parent, name) replies ok for a document
\* entry with prefix p, none of R/p.<ext>, R/p.metadata and R/p.content
\* exists, a lookup(parent, name) that follows replies ENOENT, and the files
\* of every other prefix are unchanged.
C11_UnlinkSuccess ==
    \A parent \in Inodes, name \in CallNames :
      \A r \in unlink_reply(St, parent, name) :
        \A e \in Files(disk) :
          (r.err = "ok" /\ e.prefix = r.prefix /\ e.entry_type \in Recognised) =>
            /\ ~exists(r.st.disk, source_file_path(e))
            /\ ~exists(r.st.disk, metadata_file_name(e))
            /\ ~exists(r.st.disk, set_extension(metadata_file_name(e), "content"))
            /\ \A l \in lookup_reply(r.st.disk, parent, name) : l.err = "ENOENT"
            /\ FilesNotOf(r.st.disk, e.prefix) = FilesNotOf(disk, e.prefix)


\* the errnos a callback replies
Errnos ==
    {"ENOENT", "EEXIST", "EINVAL", "EIO", "ENOSYS", "ENOTEMPTY", "EBUSY",
     "ENODATA", "EPERM"}

\* the replies of every callback but create, over all arguments
RepliesButCreate ==
    UNION {
      {l.err : l \in UNION {lookup_reply(disk, p, n) : p \in Inodes, n \in CallNames}},
      {g.err : g \in UNION {getattr_reply(disk, pending_map, i) : i \in Inodes}},
      {r.err : r \in UNION {mkdir_reply(St, p, n) : p \in Inodes, n \in Names}},
      {r.err : r \in UNION {rmdir_reply(St, p, n) : p \in Inodes, n \in CallNames}},
      {r.err : r \in UNION {unlink_reply(St, p, n) : p \in Inodes, n \in CallNames}},
      {r.err : r \in UNION {rename_reply(St, p, n, q, m) :
                              p \in Inodes, n \in CallNames, q \in Inodes, m \in NewNames}},
      {r.err : r \in UNION {open_reply(St, i) : i \in Inodes}},
      {r.err : r \in UNION {release_reply(St, i) : i \in Inodes}},
      {read_reply(file_map, i, o, z).err : i \in Inodes, o \in 0..MaxLen, z \in 0..MaxLen},
      {r.err : r \in UNION {write_reply(St, i, o, b) : i \in Inodes, o \in Offsets, b \in Datas}},
      {r.err : r \in UNION {opendir_reply(St, i) : i \in Inodes}},
      {r.err : r \in UNION {releasedir_reply(St, i) : i \in Inodes}},
      {readdir_reply(dir_map, i, o).err : i \in Inodes, o \in 0..MaxLen} }

\* the replies of create, over all arguments
RepliesOfCreate ==
    {r.err : r \in UNION {create_reply(St, p, n, f) :
                            p \in Inodes, n \in Names, f \in OpenFlags}}

\* a parent inode resolves to no entry
Unresolved(parent) == dir_from_ino(disk, parent) = {}

\* C12.  Exactly one reply: every callback, for every argument and in every
\* reachable state, issues one reply that is a success payload or an errno;
\* create, mkdir, rmdir, unlink and rename with a parent inode that resolves
\* to no entry reply ENOENT.
C12_ExactlyOneReply ==
    /\ RepliesButCreate \cup RepliesOfCreate \subseteq Errnos \cup {"ok"}
    /\ \A p \in Inodes :
         Unresolved(p) =>
           /\ \A n \in Names, f \in OpenFlags :
                \A r \in create_reply(St, p, n, f) : r.err = "ENOENT"
           /\ \A n \in {m \in Names : m[2] = ""} :
                \A r \in mkdir_reply(St, p, n) : r.err = "ENOENT"
           /\ \A n \in CallNames :
                /\ \A r \in rmdir_reply(St, p, n) : r.err = "ENOENT"
                /\ \A r \in unlink_reply(St, p, n) : r.err = "ENOENT"
                /\ \A q \in Inodes, m \in NewNames :
                     /\ \A r \in rename_reply(St, p, n, q, m) : r.err = "ENOENT"
                     /\ \A r \in rename_reply(St, q, n, p, m) : r.err = "ENOENT"


\* C13.  Documents are regular files: every entry that has a payload (type
\* PDF, EPUB or RMLINES) is reported with kind regular-file by lookup, by
\* getattr and by readdir, and the kind readdir emits for a child is the
\* kind getattr reports for that child's inode.
C13_DocumentsAreRegularFiles ==
    /\ \A e \in Scanned(disk) :
         e.entry_type \in Recognised =>
           /\ \A parent \in Inodes :
                \A l \in lookup_reply(disk, parent, file_name(e)) :
                  (l.err = "ok" /\ l.prefix = e.prefix) => l.attr.kind = "RegularFile"
           /\ \A g \in getattr_reply(disk, pending_map, e.attr.ino) :
                (g.err = "ok" /\ g.prefix = e.prefix) => g.attr.kind = "RegularFile"
    /\ \A fh \in DOMAIN dir_map, offset \in 0..MaxLen :
         LET entries == dir_map[fh].entries
             items == readdir_reply(dir_map, fh, offset).items
         IN \A k \in DOMAIN items :
              /\ entries[offset + k].entry_type \in Recognised =>
                   items[k].kind = "RegularFile"
              /\ \A g \in getattr_reply(disk, pending_map, items[k].ino) :
                   g.err = "ok" => g.attr.kind = items[k].kind


\* the elements of a sequence
Range(seq) == {seq[i] : i \in DOMAIN seq}

\* C14.  Directory listing content: the snapshot stored by the first
\* opendir(ino) holds, once each, exactly the scanned entries whose stored
\* parent is the opened directory's prefix; for the root that is the
\* synthetic trash entry (inode 2, first) and the live entries with empty
\* parent; no entry staged under .pending is in it.
C14_ListingContent ==
    \A ino \in Inodes \ DOMAIN dir_map :
      \A r \in opendir_reply(St, ino) :
        r.err = "ok" =>
          LET snapshot == r.st.dir_map[ino].entries
          IN /\ r.st.dir_map[ino].counter = 1
             /\ Range(snapshot) = {e \in Files(disk) : e.parent = r.prefix}
             /\ Cardinality(Range(snapshot)) = Len(snapshot)
             /\ ino = ROOT_INO =>
                  /\ snapshot[1] = make_trash
                  /\ snapshot[1].attr.ino = TRASH_INO
                  /\ Range(snapshot) \ {make_trash} =
                        {e \in Scanned(disk) : e.parent = ""}
             /\ \A e \in Range(snapshot) :
                  /\ e.entry_type # "PENDING"
                  /\ e.attr.ino \notin DOMAIN pending_map
                  /\ \A k \in DOMAIN pending_map :
                       pending_map[k].entry.prefix # e.prefix
                  /\ e = make_trash \/ exists(disk, RootPath(e.prefix, "metadata"))

\* the root is open with the trash entry and a live document in its
\* snapshot, taken while an ingest into the root was staged
C14_Witness ==
    /\ ROOT_INO \in DOMAIN dir_map
    /\ Len(dir_map[ROOT_INO].entries) = 2
    /\ dir_map[ROOT_INO].entries[1] = make_trash
    /\ dir_map[ROOT_INO].entries[2].entry_type \in Recognised
    /\ \E k \in DOMAIN pending_map :
         /\ pending_map[k].entry.parent = ""
         /\ pending_map[k].entry.prefix # dir_map[ROOT_INO].entries[2].prefix


\* C15.  Pending handle lifetime: release(fh) of a handle in pending_map
\* removes the entry whether the promotion succeeds or fails, so that a
\* second release(fh) replies ENOENT and getattr(fh) is not answered from
\* pending_map any more.
C15_PendingHandleLifetime ==
    \A fh \in DOMAIN pending_map :
      \A r \in release_reply(St, fh) :
        /\ r.err \in {"ok", "EIO"}
        /\ fh \notin DOMAIN r.st.pending_map
        /\ \A k \in DOMAIN r.st.pending_map : r.st.pending_map[k] = pending_map[k]
        /\ \A r2 \in release_reply(r.st, fh) : r2.err = "ENOENT" /\ r2.st = r.st
        /\ \A g \in getattr_reply(r.st.disk, r.st.pending_map, fh) :
             g.from # "pending_map"

\* an ingest whose release fails is staged beside a document that an
\* earlier release promoted
C15_Witness ==
    /\ \E fh \in DOMAIN pending_map :
         /\ pending_map[fh].entry.entry_type = "PENDING"
         /\ \E r \in release_reply(St, fh) : r.err = "EIO"
    /\ \E e \in Scanned(disk) :
         e.entry_type \in Recognised /\ e.attr.ino \notin DOMAIN pending_map


\* the prefixes of the files under R/.pending
StagedPrefixes(d) == {k[1] : k \in DOMAIN d.pending}

\* C16.  Staging holds only in-progress ingests: every file under R/.pending
\* carries the prefix of an entry held in pending_map; after release(fh) of
\* a pending handle, whatever it replies, no file with that entry's prefix
\* is left under R/.pending.
C16_StagingOnlyInProgress ==
    /\ StagedPrefixes(disk) \subseteq
          {pending_map[k].entry.prefix : k \in DOMAIN pending_map}
    /\ \A fh \in DOMAIN pending_map :
         \A r \in release_reply(St, fh) :
           pending_map[fh].entry.prefix \notin StagedPrefixes(r.st.disk)


\* C17.  EPERM on unfinished ingest: release(fh) of a pending handle whose
\* entry is still PENDING replies EPERM.
C17_EpermOnUnfinishedIngest ==
    \A fh \in DOMAIN pending_map :
      pending_map[fh].entry.entry_type = "PENDING" =>
        \A r \in release_reply(St, fh) : r.err = "EPERM"


\* C18.  IO failures map to EIO: while the store scan fails, lookup,
\* getattr, open and opendir, where they scan, reply EIO and not ENOENT,
\* and create does not go on as if the name were free.
C18_ScanFailureIsEIO ==
    ~scan_ok(disk) =>
      /\ \A parent \in Inodes, name \in CallNames :
           \A l \in lookup_reply(disk, parent, name) : l.err = "EIO"
      /\ \A ino \in Inodes \ (DOMAIN pending_map \cup {ROOT_INO}) :
           \A g \in getattr_reply(disk, pending_map, ino) : g.err = "EIO"
      /\ \A ino \in Inodes \ DOMAIN file_map :
           \A r \in open_reply(St, ino) : r.err = "EIO"
      /\ \A ino \in Inodes \ DOMAIN dir_map :
           \A r \in opendir_reply(St, ino) : r.err = "EIO"
      /\ \A parent \in Inodes, name \in Names :
           \A r \in create_reply(St, parent, name, "O_WRONLY") :
             r.err # "ok" /\ r.st = St


\* C19.  Mkdir: a name containing `.` is answered ENOSYS and no sidecar is
\* written; for any other name and an existing parent mkdir writes one new
\* collection sidecar directly under the store root, with visibleName = name
\* and parent = the parent entry's prefix, and returns the inode under which
\* lookup(parent, name) and getattr then find the directory.
C19_Mkdir ==
    \A parent \in Inodes, name \in Names :
      \A r \in mkdir_reply(St, parent, name) :
        /\ name[2] # "" => r.err = "ENOSYS" /\ r.st = St
        /\ (name[2] = "" /\ ~Unresolved(parent)) =>
             LET sidecar == <<r.prefix, "metadata">>
                 d == r.st.disk
             IN /\ r.err = "ok"
                /\ DOMAIN d.root = DOMAIN disk.root \cup {sidecar}
                /\ sidecar \notin DOMAIN disk.root
                /\ Restrict(d.root, DOMAIN disk.root) = disk.root
                /\ d.pending = disk.pending
                /\ d.pending_exists = disk.pending_exists
                /\ d.root[sidecar].body.visibleName = name
                /\ d.root[sidecar].body.type = "CollectionType"
                /\ d.root[sidecar].body.parent \in
                      {p.prefix : p \in dir_from_ino(disk, parent)}
                /\ d.root[sidecar].ino = r.ino
                /\ \A l \in lookup_reply(d, parent, name) :
                     l.err = "ok" /\ l.attr.ino = r.ino
                /\ \A g \in getattr_reply(d, r.st.pending_map, r.ino) :
                     g.err = "ok" /\ g.prefix = r.prefix /\ g.attr.kind = "Directory"


\* the inodes that resolve to the entry with a prefix
InodesOf(d, prefix) ==
    {p \in Inodes : \E e \in dir_from_ino(d, p) : e.prefix = prefix}

\* C20.  Visibility of an ingest: from the reply of create until release(fh)
\* replies ok the new file is not returned by any lookup and is in no
\* opendir snapshot, and getattr on its inode is answered from pending_map;
\* after a release that replies ok, lookup of its file name in its parent
\* returns it.  getattr(1) answers the constant root attribute in every
\* state.
C20_IngestVisibility ==
    /\ \A fh \in DOMAIN pending_map :
         LET e == pending_map[fh].entry
         IN /\ \A parent \in Inodes, name \in CallNames :
                 \A l \in lookup_reply(disk, parent, name) :
                   l.err = "ok" => l.prefix # e.prefix /\ l.attr.ino # fh
            /\ \A i \in DOMAIN dir_map :
                 \A x \in Range(dir_map[i].entries) :
                   x.prefix # e.prefix /\ x.attr.ino # fh
            /\ \A i \in Inodes \ DOMAIN dir_map :
                 \A r \in opendir_reply(St, i) :
                   r.err = "ok" =>
                     \A x \in Range(r.st.dir_map[i].entries) :
                       x.prefix # e.prefix /\ x.attr.ino # fh
            /\ getattr_reply(disk, pending_map, fh) =
                 {[err |-> "ok", prefix |-> e.prefix, attr |-> e.attr,
                   from |-> "pending_map"]}
            /\ \A r \in release_reply(St, fh) :
                 r.err = "ok" =>
                   \E new \in Scanned(r.st.disk) :
                     /\ new.prefix = e.prefix
                     /\ new.attr.ino = fh
                     /\ \A p \in InodesOf(r.st.disk, e.parent) :
                          /\ \E l \in lookup_reply(r.st.disk, p, file_name(new)) :
                               l.err = "ok" /\ l.prefix = e.prefix /\ l.attr.ino = fh
                          /\ \A l \in lookup_reply(r.st.disk, p, file_name(new)) :
                               l.err = "ok"
    /\ getattr_reply(disk, pending_map, ROOT_INO) =
         {[err |-> "ok", prefix |-> ROOT_PREFIX, attr |-> make_root.attr,
           from |-> "scan"]}
    /\ make_root.attr = [ino |-> ROOT_INO, size |-> 0, kind |-> "Directory"]


\* the states a callback that is not a directory-handle callback may leave
OutcomesOffHandles ==
    UNION {
      UNION {create_reply(St, p, n, f) : p \in Inodes, n \in Names, f \in OpenFlags},
      UNION {mkdir_reply(St, p, n) : p \in Inodes, n \in Names},
      UNION {rmdir_reply(St, p, n) : p \in Inodes, n \in CallNames},
      UNION {unlink_reply(St, p, n) : p \in Inodes, n \in CallNames},
      UNION {rename_reply(St, p, n, q, m) :
               p \in Inodes, n \in CallNames, q \in Inodes, m \in NewNames},
      UNION {open_reply(St, i) : i \in Inodes},
      UNION {release_reply(St, i) : i \in Inodes},
      UNION {write_reply(St, i, o, b) : i \in Inodes, o \in Offsets, b \in Datas} }

\* C21.  Directory handle snapshot: readdir(fh, offset) emits, in order and
\* from index offset, the entries of the snapshot stored under fh, entry i
\* with next_offset i + 1; no mkdir, create, write, release, rename, unlink
\* or rmdir changes a stored snapshot, and an opendir of an inode that is
\* open raises its count and leaves the snapshot as it is.
C21_HandleSnapshot ==
    /\ \A fh \in DOMAIN dir_map, offset \in 0..MaxLen :
         LET entries == dir_map[fh].entries
             reply == readdir_reply(dir_map, fh, offset)
         IN /\ reply.err = "ok"
            /\ Len(reply.items) = saturating_sub(Len(entries), offset)
            /\ \A k \in DOMAIN reply.items :
                 /\ reply.items[k].ino = entries[offset + k].attr.ino
                 /\ reply.items[k].name = file_name(entries[offset + k])
                 /\ reply.items[k].next_offset = (offset + k - 1) + 1
    /\ \A r \in OutcomesOffHandles : r.st.dir_map = dir_map
    /\ \A ino \in DOMAIN dir_map :
         \A r \in opendir_reply(St, ino) :
           r.err = "ok" =>
             /\ r.st.dir_map[ino].entries = dir_map[ino].entries
             /\ r.st.dir_map[ino].counter = dir_map[ino].counter + 1
             /\ \A j \in DOMAIN dir_map \ {ino} : r.st.dir_map[j] = dir_map[j]
    /\ \A ino \in Inodes \ DOMAIN dir_map :
         \A r \in opendir_reply(St, ino) :
           \A j \in DOMAIN dir_map : r.st.dir_map[j] = dir_map[j]

\* a directory was opened twice while it had a child; the child and then
\* the directory itself were removed, and the snapshot still lists the child
C21_Witness ==
    \E fh \in DOMAIN dir_map :
      /\ dir_from_ino(disk, fh) = {}
      /\ dir_map[fh].counter = 2
      /\ Len(dir_map[fh].entries) = 1
      /\ readdir_reply(dir_map, fh, 0).items[1].ino \notin
           {e.attr.ino : e \in Files(disk)}


\* the files of an entry are where its paths say
Located(d, e) ==
    /\ exists(d, metadata_file_name(e))
    /\ e.entry_type # "NONE" => exists(d, source_file_path(e))
    /\ e.entry_type = "PENDING" <=> metadata_file_name(e).dir = "pending"

\* C22.  Entry location: for every entry held in pending_map or produced by
\* a scan, a PENDING entry's payload and sidecar are under R/.pending and
\* any other entry's files are directly under the store root:
\* source_file_path and metadata_file_name name the place where the entry's
\* files are, also between an accepted write at offset 0 and the release.
C22_EntryLocation ==
    /\ \A fh \in DOMAIN pending_map : Located(disk, pending_map[fh].entry)
    /\ \A e \in Scanned(disk) : Located(disk, e)


\* ---- C23 ----
LivePayload(d, prefix) ==
    \E i \in DOMAIN ENTRYMAP : exists(d, RootPath(prefix, ENTRYMAP[i][2]))

LiveDocument(d, prefix) ==
    /\ exists(d, RootPath(prefix, "metadata"))
    /\ from_file(d, RootPath(prefix, "metadata")).type = "DocumentType"

PromotionOrdered(d) ==
    \A prefix \in Uuids :
        /\ exists(d, RootPath(prefix, "content")) =>
               /\ LivePayload(d, prefix)
               /\ exists(d, RootPath(prefix, "metadata"))
        /\ LiveDocument(d, prefix) => LivePayload(d, prefix)

\* C23: finalize_pending moves the payload, then the sidecar, then writes the
\* content marker, and stops at the first step that fails.  So in every state
\* reached when a promotion ends between two steps, by a failing step or by
\* the death of the process, a content marker in the store root has both its
\* payload and its sidecar beside it, and the live sidecar of a document has
\* its live payload.
C23_PromotionStepOrder ==
    /\ PromotionOrdered(disk)
    /\ \A fh \in DOMAIN pending_map :
         LET e == pending_map[fh].entry
             staged == PendingPath(e.prefix, "")
             after(n) == finalize_cut(disk, e, n)
         IN e.entry_type \in Recognised =>
              /\ after(3) = finalize_pending(disk, e).disk
              /\ \A n \in 0..3 : PromotionOrdered(after(n))
              /\ ~exists(disk, staged) => after(3) = disk
              /\ exists(disk, staged) =>
                   /\ exists(after(1), source_file_path(e))
                   /\ ~exists(after(1), staged)
                   /\ after(1).root = (Key(source_file_path(e)) :>
                          disk.pending[Key(staged)]) @@ disk.root
                   /\ ~exists(disk, set_extension(staged, "metadata")) =>
                          after(3) = after(1)
                   /\ exists(disk, set_extension(staged, "metadata")) =>
                        /\ exists(after(2), metadata_file_name(e))
                        /\ after(2).pending = Restrict(disk.pending,
                               DOMAIN disk.pending \ StagedFiles(disk, e.prefix))
                        /\ ~exists(after(2),
                               set_extension(metadata_file_name(e), "content"))
                        /\ exists(after(3),
                               set_extension(metadata_file_name(e), "content"))
                        /\ after(3).pending = after(2).pending

\* the process died after the payload of an ingest was moved and before its
\* sidecar was
C23_Witness ==
    \E prefix \in Uuids :
        /\ LivePayload(disk, prefix)
        /\ ~exists(disk, RootPath(prefix, "metadata"))
        /\ exists(disk, PendingPath(prefix, "metadata"))
        /\ pending_map = EmptyFn


\* ---- C24 ----
\* `name` with `.` and `ext` appended, or `name` when there is no extension
Appended(name, ext) ==
    IF ext = "" THEN name
    ELSE IF name[2] = "" THEN <<name[1], ext>>
    ELSE <<name[1] \o "." \o name[2], ext>>

ComposedName(e) == Appended(e.name, entry_type_ext(e.entry_type))

\* C24: the file name of every entry is its visible name with `.` and the
\* extension of its type appended when it is a document and its visible name
\* itself when it is a directory, whatever the visible name is, one that has
\* a `.` in it included; a lookup of that file name in the entry's parent
\* finds the entry.
C24_FileNameComposition ==
    \A e \in Scanned(disk) :
        /\ file_name(e) = ComposedName(e)
        /\ \E r \in lookup_reply(disk, parent_inode_or_root(disk, e),
                                 ComposedName(e)) :
               r.err = "ok" /\ r.prefix = e.prefix


\* ---- C25 ----
Max(a, b) == IF a > b THEN a ELSE b

\* C25: read(fh, offset, size) on an open file handle replies exactly the
\* min(size, max(0, file_size - offset)) bytes of the payload that start at
\* offset, for every size of the 32-bit range, every offset and every file
\* size, the ones where file_size - offset does not fit 32 bits included.
C25_ReadLength ==
    \A fh \in DOMAIN file_map, offset \in ReadOffsets, size \in ReadSizes :
        LET file == file_map[fh].file
            n == Min(size, Max(0, Len(file) - offset))
            r == read_reply(file_map, fh, offset, size)
        IN /\ r.err = "ok"
           /\ r.data = SubSeq(file, offset + 1, offset + n)


\* ---- C26 ----
\* C26: starting from a store where no two entries of a directory share a
\* file name, after any sequence of mkdir, create, write, release, rename,
\* unlink and rmdir no two live entries with the same parent have the same
\* file name.
C26_NameUniqueness ==
    \A e1, e2 \in Scanned(disk) :
        (e1.parent = e2.parent /\ file_name(e1) = file_name(e2)) => e1 = e2


\* ---- C27 ----
\* the entries that a fresh opendir(ino) followed by readdir(ino, 0) lists
FreshListing(ino) ==
    UNION { IF o.err = "ok"
            THEN Range(readdir_reply(o.st.dir_map, ino, 0).items)
            ELSE {}
            : o \in opendir_reply([St EXCEPT !.dir_map = EmptyFn], ino) }

DirectoryInodes ==
    {ROOT_INO, TRASH_INO} \cup
    {e.attr.ino : e \in {x \in Scanned(disk) : x.entry_type = "NONE"}}

\* C27: in every reachable state, for every directory inode P and name n,
\* lookup(P, n) succeeds with inode k if and only if a fresh opendir(P)
\* followed by readdir lists an entry named n with inode k.
C27_LookupAgreesWithListing ==
    \A P \in DirectoryInodes, n \in CallNames, k \in Inodes :
        (\E r \in lookup_reply(disk, P, n) : r.err = "ok" /\ r.attr.ino = k)
        <=> (\E item \in FreshListing(P) : item.name = n /\ item.ino = k)


\* ---- C28 ----
\* C28: for a pending handle whose entry has a recognised type when
\* release(fh) is called, release replies ok and the promoted live payload
\* holds the bytes of every write that was acknowledged on the handle,
\* whatever writes were made on it, one rejected with ENOSYS before an
\* accepted one included.
C28_AcknowledgedWritesIngested ==
    \A fh \in DOMAIN pending_map :
        LET e == pending_map[fh].entry
            payload == RootPath(e.prefix, entry_type_ext(e.entry_type))
        IN e.entry_type \in Recognised =>
             \A r \in release_reply(St, fh) :
                 /\ r.err = "ok"
                 /\ exists(r.st.disk, payload)
                 /\ r.st.disk.root[Key(payload)].body = pending_map[fh].file

====
